---------------------------- MODULE Spec2Model ----------------------------
(***************************************************************************)
(* The ALM operator's reconciliation loop (src/alm/alm.go): Run's startup  *)
(* handshake and shutdown, the informer's add notifications, the           *)
(* rate-limited work queue and the worker's Get / sync / Forget |          *)
(* AddRateLimited / Done protocol.                                         *)
(*                                                                         *)
(* The work queue (k8s.io/client-go/util/workqueue) is vendored code; its  *)
(* operations are modelled from section 4.1 of the specification (queue,   *)
(* dirty set, processing set, delayed adds, per-key failure counter).      *)
(***************************************************************************)
EXTENDS Naturals, Sequences, FiniteSets

\* Number of workers draining the one shared queue.
NumWorkers == 2
\* The per-key failure counter saturates here (the delay it feeds is capped).
MaxFailures == 2
\* Add calls counted per processing round (the count saturates).
MaxAdds == 2

Workers == 1 .. NumWorkers

Namespaces == {"ns1"}
Names == {"foo"}

\* What an object in the cache can look like to sync.
\*   badtype    : not an *OperatorVersion
\*   nostrategy : install["strategy"] is absent or not a string
\*   other      : a string discriminator other than "deployment"
\*   deployment : the "deployment" strategy
ObjKinds == {"badtype", "nostrategy", "other", "deployment"}

\* Objects the informer can notify about; hasMeta = FALSE is an object whose
\* metadata cannot be accessed, so that no key can be derived from it.
Objects == [hasMeta : BOOLEAN, ns : Namespaces, name : Names, kind : ObjKinds]

\* cache.MetaNamespaceKeyFunc: "<namespace>/<name>", or "<name>" alone when
\* the namespace is empty.
MetaNamespaceKey(ns, name) == IF ns = "" THEN name ELSE ns \o "/" \o name

Keys == {MetaNamespaceKey(ns, n) : ns \in Namespaces, n \in Names}

\* Operator.keyFunc: <<key, ok>>.
keyFunc(obj) ==
  IF obj.hasMeta THEN <<MetaNamespaceKey(obj.ns, obj.name), TRUE>>
                 ELSE <<"", FALSE>>

VARIABLES
  runPc,        \* Run: "init", "select", "ready", "running", "defer", "returned"
  runSel,       \* the case Run's select took: "none", "err", "nil", "stop"
  runRet,       \* the value Run returns: "none", "nil", "err"
  probePc,      \* probe goroutine: "idle", "probing", "sendErr", "sendNil", "done"
  stopped,      \* stopc is closed
  informerPc,   \* informer.Run: "idle", "running", "stopped"
  cache,        \* the informer's indexer: key -> kind of object, or "absent"
  queue,        \* workqueue: keys in delivery order
  dirty,        \* workqueue: keys that need processing
  processing,   \* workqueue: keys between Get and Done
  shuttingDown, \* workqueue: ShutDown was called
  waiting,      \* delaying queue: keys whose rate-limited add is scheduled
  failures,     \* rate limiter: per-key failure counter
  lastDelay,    \* rate limiter: the delay of the key's last AddRateLimited,
                \*   in units of the base delay; 0 when none since a Forget
  wpc,          \* worker: "idle", "get", "sync", "done", "exited"
  wkey,         \* worker: the key Get returned ("" when none)
  wrun,         \* worker: what the current processNextWorkItem has done: what
                \*   sync saw and returned, Install's outcome, whether the
                \*   error was reported, the key requeued or forgotten, and
                \*   the failure count Forget cleared
  addsDuring,   \* history: Add calls made for a key during its last processing
  addsKept,     \* history: one of them was made before ShutDown
  addsPending,  \* history: an Add call was made for a key while it was pending
  unreconciled, \* history: the cached object was updated or deleted since
                \*   the last sync of its key
  pendingAdd,   \* history: an add notification not yet followed by a sync
  syncInvoked   \* history: sync was invoked at least once

runVars == <<runPc, runSel, runRet, probePc, stopped>>
queueVars == <<queue, dirty, processing, shuttingDown, waiting, failures,
               lastDelay>>
workerVars == <<wpc, wkey, wrun>>
histVars == <<addsDuring, addsKept, addsPending, unreconciled, pendingAdd,
              syncInvoked>>
vars == <<runPc, runSel, runRet, probePc, stopped, informerPc, cache, queue, dirty,
          processing, shuttingDown, waiting, failures, lastDelay, wpc, wkey,
          wrun,
          addsDuring, addsKept, addsPending, unreconciled, pendingAdd,
          syncInvoked>>

NoRun == [seen |-> "none", err |-> "none", install |-> "none",
          reported |-> FALSE, requeued |-> FALSE, forgot |-> FALSE,
          cleared |-> 0]

Count(k, q) == Cardinality({i \in 1 .. Len(q) : q[i] = k})

Min(a, b) == IF a < b THEN a ELSE b

RECURSIVE Pow2(_)
Pow2(n) == IF n = 0 THEN 1 ELSE 2 * Pow2(n - 1)

\* The cap of the backoff, in units of the base delay.
MaxDelay == Pow2(MaxFailures)

\* The rate limiter's delay for a key that has failed f times since its
\* last Forget: exponential in f, capped.
When(f) == Min(Pow2(f), MaxDelay)

Init ==
  /\ runPc = "init"
  /\ runSel = "none"
  /\ runRet = "none"
  /\ probePc = "idle"
  /\ stopped = FALSE
  /\ informerPc = "idle"
  /\ cache = [k \in Keys |-> "absent"]
  /\ queue = <<>>
  /\ dirty = {}
  /\ processing = {}
  /\ shuttingDown = FALSE
  /\ waiting = {}
  /\ failures = [k \in Keys |-> 0]
  /\ lastDelay = [k \in Keys |-> 0]
  /\ wpc = [w \in Workers |-> "idle"]
  /\ wkey = [w \in Workers |-> ""]
  /\ wrun = [w \in Workers |-> NoRun]
  /\ addsDuring = [k \in Keys |-> 0]
  /\ addsKept = [k \in Keys |-> FALSE]
  /\ addsPending = [k \in Keys |-> FALSE]
  /\ unreconciled = [k \in Keys |-> FALSE]
  /\ pendingAdd = [k \in Keys |-> FALSE]
  /\ syncInvoked = FALSE

---------------------------------------------------------------------------
(* The work queue, from section 4.1 of the specification.                  *)

\* Worker w holds key k: it is between Get and the deferred Done.
InFlight(w, k) == wpc[w] \in {"sync", "done"} /\ wkey[w] = k

\* Some worker holds key k.
Held(k) == \E w \in Workers : InFlight(w, k)

\* History kept beside Add: how many Add calls were made for a key while
\* a worker held it, and whether one of them came before ShutDown; and
\* whether an Add call was made for a key that was already pending.
NoteAdd(k) ==
  /\ IF Held(k)
       THEN /\ addsDuring' = [addsDuring EXCEPT ![k] = Min(@ + 1, MaxAdds)]
            /\ addsKept' = [addsKept EXCEPT ![k] = @ \/ ~shuttingDown]
       ELSE UNCHANGED <<addsDuring, addsKept>>
  /\ addsPending' = [addsPending EXCEPT ![k] = @ \/ Count(k, queue) > 0]

\* Add(key): a no-op after ShutDown; coalesced when the key is already
\* pending; recorded but not queued while the key is in flight.
QueueAdd(k) ==
  IF shuttingDown \/ k \in dirty
    THEN UNCHANGED <<queue, dirty>>
    ELSE /\ dirty' = dirty \cup {k}
         /\ queue' = IF k \in processing THEN queue ELSE Append(queue, k)

\* Get() when an item is available: the head leaves the queue and the dirty
\* set and enters the processing set.
QueueGet(k) ==
  /\ queue # <<>>
  /\ k = Head(queue)
  /\ queue' = Tail(queue)
  /\ processing' = processing \cup {k}
  /\ dirty' = dirty \ {k}

\* Get() reports shutdown once the queue is shut down and drained.
QueueGetShutdown == queue = <<>> /\ shuttingDown

\* Done(key): the key leaves the processing set; an Add recorded while it
\* was in flight makes it eligible again.
QueueDone(k) ==
  /\ processing' = processing \ {k}
  /\ queue' = IF k \in dirty THEN Append(queue, k) ELSE queue

\* Forget(key): the key's failure counter is reset.
QueueForget(k) ==
  /\ failures' = [failures EXCEPT ![k] = 0]
  /\ lastDelay' = [lastDelay EXCEPT ![k] = 0]

\* AddRateLimited(key): the failure counter advances and a delayed Add is
\* scheduled; nothing is scheduled after ShutDown.
QueueAddRateLimited(k) ==
  /\ lastDelay' = [lastDelay EXCEPT ![k] = When(failures[k])]
  /\ failures' = [failures EXCEPT ![k] = Min(@ + 1, MaxFailures)]
  /\ waiting' = IF shuttingDown THEN waiting ELSE waiting \cup {k}

\* ShutDown().
QueueShutDown == shuttingDown' = TRUE

\* The delaying queue's timer: a scheduled key's delay expires and it is
\* added to the queue.
TimerFire(k) ==
  /\ k \in waiting
  /\ waiting' = waiting \ {k}
  /\ NoteAdd(k)
  /\ QueueAdd(k)
  /\ UNCHANGED <<processing, shuttingDown, failures, lastDelay>>
  /\ UNCHANGED <<runVars, informerPc, cache, workerVars, unreconciled,
                 pendingAdd, syncInvoked>>

---------------------------------------------------------------------------
(* Operator.Run and its connectivity probe.                                *)

\* The lifecycle state of section 4.5 that Run is in at each of its program
\* points, and the order of those states.
Lifecycle ==
  CASE runPc = "init" -> "Initializing"
    [] runPc = "select" -> "Connecting"
    [] runPc \in {"ready", "running"} -> "Running"
    [] runPc = "defer" -> "ShuttingDown"
    [] runPc = "returned" -> "Stopped"

LifecycleOrder ==
  <<"Initializing", "Connecting", "Running", "ShuttingDown", "Stopped">>

Rank(s) == CHOOSE i \in 1 .. Len(LifecycleOrder) : LifecycleOrder[i] = s

\* RunStart with go o.worker() and go o.informer.Run(stopc) moved before the
\* select: they run while the probe is still outstanding.
RunStart_SpawnEarly ==
  /\ runPc = "init"
  /\ runPc' = "select"
  /\ probePc' = "probing"
  /\ wpc' = [w \in Workers |-> "get"]
  /\ informerPc' = "running"
  /\ UNCHANGED <<runSel, runRet, stopped, cache, queueVars, wkey, wrun,
                 histVars>>

\* Run up to the select: the deferred ShutDown is registered, errChan is
\* made and the probe goroutine is started.
RunStart ==
  /\ runPc = "init"
  /\ runPc' = "select"
  /\ probePc' = "probing"
  /\ UNCHANGED <<runSel, runRet, stopped, informerPc, cache, queueVars,
                 workerVars, histVars>>

\* The probe goroutine: ServerVersion() returns, and the goroutine blocks
\* sending the result on the unbuffered errChan.
ProbeResolve ==
  /\ probePc = "probing"
  /\ \E ok \in BOOLEAN : probePc' = IF ok THEN "sendNil" ELSE "sendErr"
  /\ UNCHANGED <<runPc, runSel, runRet, stopped, informerPc, cache, queueVars,
                 workerVars, histVars>>

\* The environment closes stopc.
StopSignal ==
  /\ ~stopped
  /\ stopped' = TRUE
  /\ UNCHANGED <<runPc, runSel, runRet, probePc, informerPc, cache, queueVars,
                 workerVars, histVars>>

\* RunSelectErr with the error logged but not returned: Run goes on to start
\* the worker and the informer after a failed probe.
RunSelectErr_IgnoreErr ==
  /\ runPc = "select"
  /\ probePc \in {"sendErr", "sendNil"}
  /\ probePc' = "done"
  /\ runSel' = IF probePc = "sendErr" THEN "err" ELSE "nil"
  /\ runRet' = runRet
  /\ runPc' = "ready"
  /\ UNCHANGED <<stopped, informerPc, cache, queueVars, workerVars, histVars>>

\* select, case err := <-errChan: a failed probe makes Run return the error.
RunSelectErr ==
  /\ runPc = "select"
  /\ probePc \in {"sendErr", "sendNil"}
  /\ probePc' = "done"
  /\ IF probePc = "sendErr"
       THEN runSel' = "err" /\ runRet' = "err" /\ runPc' = "defer"
       ELSE runSel' = "nil" /\ runRet' = runRet /\ runPc' = "ready"
  /\ UNCHANGED <<stopped, informerPc, cache, queueVars, workerVars, histVars>>

\* RunSelectStop without its return: the stop case falls out of the select
\* and Run goes on to start the worker and the informer.
RunSelectStop_FallThrough ==
  /\ runPc = "select"
  /\ stopped
  /\ runSel' = "stop"
  /\ runRet' = "nil"
  /\ runPc' = "ready"
  /\ UNCHANGED <<probePc, stopped, informerPc, cache, queueVars, workerVars,
                 histVars>>

\* select, case <-stopc: Run returns nil.
RunSelectStop ==
  /\ runPc = "select"
  /\ stopped
  /\ runSel' = "stop"
  /\ runRet' = "nil"
  /\ runPc' = "defer"
  /\ UNCHANGED <<probePc, stopped, informerPc, cache, queueVars, workerVars,
                 histVars>>

\* go o.worker(); go o.informer.Run(stopc)
RunSpawn ==
  /\ runPc = "ready"
  /\ runPc' = "running"
  /\ wpc' = [w \in Workers |-> "get"]
  /\ informerPc' = "running"
  /\ UNCHANGED <<runSel, runRet, probePc, stopped, cache, queueVars, wkey,
                 wrun, histVars>>

\* RunWaitStop without the receive from stopc: Run returns as soon as the
\* worker and the informer are started.
RunWaitStop_NoWait ==
  /\ runPc = "running"
  /\ runRet' = "nil"
  /\ runPc' = "defer"
  /\ UNCHANGED <<runSel, probePc, stopped, informerPc, cache, queueVars,
                 workerVars, histVars>>

\* <-stopc; return nil
RunWaitStop ==
  /\ runPc = "running"
  /\ stopped
  /\ runRet' = "nil"
  /\ runPc' = "defer"
  /\ UNCHANGED <<runSel, probePc, stopped, informerPc, cache, queueVars,
                 workerVars, histVars>>

\* Run without defer o.queue.ShutDown(): it returns and leaves the queue
\* open.
RunDeferShutDown_NoShutDown ==
  /\ runPc = "defer"
  /\ runPc' = "returned"
  /\ UNCHANGED <<runSel, runRet, probePc, stopped, informerPc, cache, queueVars,
                 workerVars, histVars>>

\* defer o.queue.ShutDown(), run as Run returns.
RunDeferShutDown ==
  /\ runPc = "defer"
  /\ QueueShutDown
  /\ runPc' = "returned"
  /\ UNCHANGED <<runSel, runRet, probePc, stopped, informerPc, cache, queue,
                 dirty, processing, waiting, failures, lastDelay, workerVars,
                 histVars>>

---------------------------------------------------------------------------
(* The informer and the event handler.                                     *)

\* enqueue appending the key to the pending entries itself, whether or not
\* the key is already pending.
enqueue_NoCoalesce(key) ==
  /\ NoteAdd(key)
  /\ IF shuttingDown
       THEN UNCHANGED <<queue, dirty>>
       ELSE /\ queue' = Append(queue, key)
            /\ dirty' = dirty \cup {key}

\* Operator.enqueue for a string key: the key is added to the queue.
enqueue(key) == NoteAdd(key) /\ QueueAdd(key)

\* handleAddOperatorVersion that logs the added object and never enqueues it.
handleAddOperatorVersion_NoEnqueue(obj) ==
  UNCHANGED <<queue, dirty, addsDuring, addsKept, addsPending>>

\* Operator.handleAddOperatorVersion: nothing is enqueued when no key can
\* be derived from the object.
handleAddOperatorVersion(obj) ==
  IF keyFunc(obj)[2]
    THEN enqueue(keyFunc(obj)[1])
    ELSE UNCHANGED <<queue, dirty, addsDuring, addsKept, addsPending>>

\* The informer stores a new object and notifies the add handler.  An
\* add notification while stopc is still open is remembered until the next
\* sync of its key begins.
InformerAdd(obj) ==
  /\ informerPc = "running"
  /\ IF obj.hasMeta
       THEN /\ cache[keyFunc(obj)[1]] = "absent"
            /\ cache' = [cache EXCEPT ![keyFunc(obj)[1]] = obj.kind]
            /\ pendingAdd' = IF stopped THEN pendingAdd
                             ELSE [pendingAdd EXCEPT ![keyFunc(obj)[1]] = TRUE]
       ELSE UNCHANGED <<cache, pendingAdd>>
  /\ handleAddOperatorVersion(obj)
  /\ UNCHANGED <<runVars, informerPc, processing, shuttingDown, waiting,
                 failures, lastDelay, workerVars, unreconciled, syncInvoked>>

\* An UpdateFunc registered beside AddFunc that enqueues the object's key.
UpdateFunc_Enqueues(k) == enqueue(k)

\* cache.ResourceEventHandlerFuncs{AddFunc: ...}: UpdateFunc and DeleteFunc
\* are left nil, so update and delete notifications call nothing.
UpdateFunc(k) == UNCHANGED <<queue, dirty, addsDuring, addsKept, addsPending>>

DeleteFunc(k) == UNCHANGED <<queue, dirty, addsDuring, addsKept, addsPending>>

\* The informer stores a changed object (a watch update or the periodic
\* resync) and notifies the update handler.
InformerUpdate(k, kind) ==
  /\ informerPc = "running"
  /\ cache[k] \notin {"absent", kind}
  /\ cache' = [cache EXCEPT ![k] = kind]
  /\ unreconciled' = [unreconciled EXCEPT ![k] = TRUE]
  /\ UpdateFunc(k)
  /\ UNCHANGED <<runVars, informerPc, processing, shuttingDown, waiting,
                 failures, lastDelay, workerVars, pendingAdd, syncInvoked>>

\* The informer removes a deleted object and notifies the delete handler.
InformerDelete(k) ==
  /\ informerPc = "running"
  /\ cache[k] # "absent"
  /\ cache' = [cache EXCEPT ![k] = "absent"]
  /\ unreconciled' = [unreconciled EXCEPT ![k] = TRUE]
  /\ DeleteFunc(k)
  /\ UNCHANGED <<runVars, informerPc, processing, shuttingDown, waiting,
                 failures, lastDelay, workerVars, pendingAdd, syncInvoked>>

\* informer.Run(stopc) returns once it observes the closed stopc.
InformerStop ==
  /\ informerPc = "running"
  /\ stopped
  /\ informerPc' = "stopped"
  /\ UNCHANGED <<runVars, cache, queueVars, workerVars, histVars>>

---------------------------------------------------------------------------
(* The worker: processNextWorkItem and sync.                               *)

\* sync without the comparison with "deployment": every string discriminator
\* is installed.
sync_AnyStringInstalls(seen, installOk) ==
  [NoRun EXCEPT
     !.seen = seen,
     !.err = CASE seen = "error" -> "lookup"
               [] seen = "absent" -> "nil"
               [] seen = "badtype" -> "cast"
               [] seen = "nostrategy" -> "strategy"
               [] OTHER -> "nil",
     !.install = IF seen \in {"deployment", "other"}
                   THEN (IF installOk THEN "ok" ELSE "failed")
                   ELSE "none"]

\* sync returning an error for a key the cache no longer holds.
sync_MissingIsError(seen, installOk) ==
  [NoRun EXCEPT
     !.seen = seen,
     !.err = CASE seen = "error" -> "lookup"
               [] seen = "absent" -> "lookup"
               [] seen = "badtype" -> "cast"
               [] seen = "nostrategy" -> "strategy"
               [] OTHER -> "nil",
     !.install = IF seen = "deployment"
                   THEN (IF installOk THEN "ok" ELSE "failed")
                   ELSE "none"]

\* Operator.sync on what GetByKey returned ("error" for a lookup error,
\* "absent" for exists = false, else the kind of the object); installOk is
\* the outcome of kubeDeployment.Install, whose result sync discards.
sync(seen, installOk) ==
  [NoRun EXCEPT
     !.seen = seen,
     !.err = CASE seen = "error" -> "lookup"
               [] seen = "absent" -> "nil"
               [] seen = "badtype" -> "cast"
               [] seen = "nostrategy" -> "strategy"
               [] OTHER -> "nil",
     !.install = IF seen = "deployment"
                   THEN (IF installOk THEN "ok" ELSE "failed")
                   ELSE "none"]

\* processNextWorkItem with o.queue.Done(key) called at once instead of
\* deferred: the key is no longer in flight while sync runs.
ProcessGet_EagerDone(w) ==
  /\ wpc[w] = "get"
  /\ \E k \in Keys :
       /\ queue # <<>>
       /\ k = Head(queue)
       /\ queue' = Tail(queue)
       /\ dirty' = dirty \ {k}
       /\ processing' = processing \ {k}
       /\ wkey' = [wkey EXCEPT ![w] = k]
       /\ addsDuring' = [addsDuring EXCEPT ![k] = 0]
       /\ addsKept' = [addsKept EXCEPT ![k] = FALSE]
       /\ addsPending' = [addsPending EXCEPT ![k] = FALSE]
  /\ wpc' = [wpc EXCEPT ![w] = "sync"]
  /\ UNCHANGED <<runVars, informerPc, cache, shuttingDown, waiting, failures,
                 lastDelay, wrun, unreconciled, pendingAdd, syncInvoked>>

\* key, quit := o.queue.Get() with an item available; defer o.queue.Done(key).
ProcessGet(w) ==
  /\ wpc[w] = "get"
  /\ \E k \in Keys :
       /\ QueueGet(k)
       /\ wkey' = [wkey EXCEPT ![w] = k]
       /\ addsDuring' = [addsDuring EXCEPT ![k] = 0]
       /\ addsKept' = [addsKept EXCEPT ![k] = FALSE]
       /\ addsPending' = [addsPending EXCEPT ![k] = FALSE]
  /\ wpc' = [wpc EXCEPT ![w] = "sync"]
  /\ UNCHANGED <<runVars, informerPc, cache, shuttingDown, waiting, failures,
                 lastDelay, wrun, unreconciled, pendingAdd, syncInvoked>>

\* processNextWorkItem returning true when Get reports quit: the worker
\* calls Get again and never leaves its loop.
ProcessGetShutdown_KeepsLooping(w) ==
  /\ wpc[w] = "get"
  /\ QueueGetShutdown
  /\ wpc' = [wpc EXCEPT ![w] = "get"]
  /\ UNCHANGED <<runVars, informerPc, cache, queueVars, wkey, wrun, histVars>>

\* key, quit := o.queue.Get() with quit = true: processNextWorkItem returns
\* false and the worker's loop ends.
ProcessGetShutdown(w) ==
  /\ wpc[w] = "get"
  /\ QueueGetShutdown
  /\ wpc' = [wpc EXCEPT ![w] = "exited"]
  /\ UNCHANGED <<runVars, informerPc, cache, queueVars, wkey, wrun, histVars>>

\* The success path without o.queue.Forget(key).
ProcessForget_NoForget(w, r) ==
  /\ wrun' = [wrun EXCEPT ![w] = r]
  /\ UNCHANGED <<failures, lastDelay, waiting>>

\* if err == nil { o.queue.Forget(key); return true }
ProcessForget(w, r) ==
  /\ QueueForget(wkey[w])
  /\ wrun' = [wrun EXCEPT ![w] = [r EXCEPT !.forgot = TRUE,
                                          !.cleared = failures[wkey[w]]]]
  /\ UNCHANGED waiting

\* The failure path without o.queue.AddRateLimited(key): the error is
\* reported and the key is dropped.
ProcessRetry_NoRequeue(w, r) ==
  /\ wrun' = [wrun EXCEPT ![w] = [r EXCEPT !.reported = TRUE]]
  /\ UNCHANGED <<failures, lastDelay, waiting>>

\* The failure path with o.queue.Forget(key) called before AddRateLimited:
\* every retry is scheduled as a first failure.
ProcessRetry_ForgetFirst(w, r) ==
  /\ lastDelay' = [lastDelay EXCEPT ![wkey[w]] = When(0)]
  /\ failures' = [failures EXCEPT ![wkey[w]] = 1]
  /\ waiting' = IF shuttingDown THEN waiting ELSE waiting \cup {wkey[w]}
  /\ wrun' = [wrun EXCEPT
                ![w] = [r EXCEPT !.reported = TRUE, !.requeued = TRUE]]

\* utilruntime.HandleError(errors.Wrap(err, ...)); o.queue.AddRateLimited(key);
\* return true
ProcessRetry(w, r) ==
  /\ QueueAddRateLimited(wkey[w])
  /\ wrun' = [wrun EXCEPT
                ![w] = [r EXCEPT !.reported = TRUE, !.requeued = TRUE]]

\* err := o.sync(key.(string)) and what processNextWorkItem does with err,
\* up to its return (the deferred Done is the next step).
ProcessSync(w) ==
  /\ wpc[w] = "sync"
  /\ \E lookupOk \in BOOLEAN, installOk \in BOOLEAN :
       LET r == sync(IF lookupOk THEN cache[wkey[w]] ELSE "error", installOk)
       IN  IF r.err = "nil" THEN ProcessForget(w, r) ELSE ProcessRetry(w, r)
  /\ wpc' = [wpc EXCEPT ![w] = "done"]
  /\ pendingAdd' = [pendingAdd EXCEPT ![wkey[w]] = FALSE]
  /\ unreconciled' = [unreconciled EXCEPT ![wkey[w]] = FALSE]
  /\ syncInvoked' = TRUE
  /\ UNCHANGED <<runVars, informerPc, cache, queue, dirty, processing,
                 shuttingDown, wkey, addsDuring, addsKept, addsPending>>

\* processNextWorkItem without its defer: the worker loops and Done is never
\* called for the key.
ProcessDone_NoDone(w) ==
  /\ wpc[w] = "done"
  /\ wpc' = [wpc EXCEPT ![w] = "get"]
  /\ wkey' = [wkey EXCEPT ![w] = ""]
  /\ wrun' = [wrun EXCEPT ![w] = NoRun]
  /\ UNCHANGED <<runVars, informerPc, cache, queueVars, histVars>>

\* processNextWorkItem with o.queue.Done(key) called on the success path
\* only, not deferred: after a failed sync the key stays in flight.
ProcessDone_OnlyOnSuccess(w) ==
  /\ wpc[w] = "done"
  /\ IF wrun[w].err = "nil"
       THEN QueueDone(wkey[w])
       ELSE UNCHANGED <<queue, processing>>
  /\ wpc' = [wpc EXCEPT ![w] = "get"]
  /\ wkey' = [wkey EXCEPT ![w] = ""]
  /\ wrun' = [wrun EXCEPT ![w] = NoRun]
  /\ UNCHANGED <<runVars, informerPc, cache, dirty, shuttingDown, waiting,
                 failures, lastDelay, histVars>>

\* processNextWorkItem returning false after a failed sync: the worker's
\* loop ends on the first error.
ProcessDone_QuitOnError(w) ==
  /\ wpc[w] = "done"
  /\ QueueDone(wkey[w])
  /\ wpc' = [wpc EXCEPT ![w] = IF wrun[w].err = "nil" THEN "get" ELSE "exited"]
  /\ wkey' = [wkey EXCEPT ![w] = ""]
  /\ wrun' = [wrun EXCEPT ![w] = NoRun]
  /\ UNCHANGED <<runVars, informerPc, cache, dirty, shuttingDown, waiting,
                 failures, lastDelay, histVars>>

\* The deferred o.queue.Done(key), run as processNextWorkItem returns true;
\* the worker loops.
ProcessDone(w) ==
  /\ wpc[w] = "done"
  /\ QueueDone(wkey[w])
  /\ wpc' = [wpc EXCEPT ![w] = "get"]
  /\ wkey' = [wkey EXCEPT ![w] = ""]
  /\ wrun' = [wrun EXCEPT ![w] = NoRun]
  /\ UNCHANGED <<runVars, informerPc, cache, dirty, shuttingDown, waiting,
                 failures, lastDelay, histVars>>

\* Operator.worker: for c.processNextWorkItem() {}
worker(w) ==
  \/ ProcessGet(w)
  \/ ProcessGetShutdown(w)
  \/ ProcessSync(w)
  \/ ProcessDone(w)

---------------------------------------------------------------------------

Next ==
  \/ RunStart
  \/ ProbeResolve
  \/ StopSignal
  \/ RunSelectErr
  \/ RunSelectStop
  \/ RunSpawn
  \/ RunWaitStop
  \/ RunDeferShutDown
  \/ \E obj \in Objects : InformerAdd(obj)
  \/ \E k \in Keys, kind \in ObjKinds : InformerUpdate(k, kind)
  \/ \E k \in Keys : InformerDelete(k)
  \/ InformerStop
  \/ \E k \in Keys : TimerFire(k)
  \/ \E w \in Workers : worker(w)

Spec == Init /\ [][Next]_vars

\* The Go scheduler runs every runnable goroutine: each worker takes its
\* next step when it can.
FairSpec ==
  /\ Spec
  /\ \A w \in Workers : WF_vars(worker(w))

\* In addition every delay scheduled by AddRateLimited expires.
LiveSpec ==
  /\ FairSpec
  /\ \A k \in Keys : WF_vars(TimerFire(k))

---------------------------------------------------------------------------
(* The claims.                                                             *)

\* C1: with any number of workers on the one queue, under every interleaving
\* of adds, delayed retries and Done calls, no two workers are between Get
\* and Done (so no two sync invocations are in progress) for the same key.
C1_NoConcurrentSync ==
  \A w1 \in Workers, w2 \in Workers, k \in Keys :
    InFlight(w1, k) /\ InFlight(w2, k) => w1 = w2

\* C1's case: a worker is in sync for a key that failed before, an Add for the
\* key was recorded meanwhile, and another worker waits in Get on the empty
\* queue.
C1_Witness ==
  \E w1 \in Workers, w2 \in Workers, k \in Keys :
    /\ w1 # w2
    /\ wpc[w1] = "sync" /\ wkey[w1] = k
    /\ k \in dirty /\ failures[k] > 0
    /\ wpc[w2] = "get" /\ queue = <<>>

\* C2: whenever the deployment install invoked by sync fails, the worker
\* reports the error and calls AddRateLimited for the key before Done.
C2_FailedInstallRetried ==
  \A w \in Workers :
    wpc[w] = "done" /\ wrun[w].install = "failed"
      => wrun[w].reported /\ wrun[w].requeued

\* C3 as stated: after Done, any number >= 1 of Add calls made for the key
\* while it was in flight leave it pending exactly once.
C3_AnyAddRedelivered ==
  \A k \in Keys :
    ~Held(k) /\ addsDuring[k] >= 1 => Count(k, queue) = 1

\* C3, amended: a key in flight is not pending; after Done it is pending
\* exactly once when at least one of the Add calls made while it was in
\* flight came before ShutDown, however many there were.
C3_Coalesced ==
  \A k \in Keys :
    /\ Held(k) => Count(k, queue) = 0
    /\ ~Held(k) /\ addsKept[k] => Count(k, queue) = 1

\* C3's case: Done has run for a key that got two or more Add calls while in
\* flight, and the key is pending once.
C3_Witness ==
  \E k \in Keys :
    /\ ~Held(k)
    /\ addsKept[k] /\ addsDuring[k] >= 2
    /\ Count(k, queue) = 1

\* C4: an add notification for an object with a derivable key, delivered
\* while stopc is open, is eventually followed by a sync of that key.
C4_AddLeadsToSync ==
  \A k \in Keys : pendingAdd[k] ~> ~pendingAdd[k]

\* C4's case: the add arrived while the key was in flight and stopc has been
\* closed since, so the sync still owed is one after shutdown began.
C4_Witness ==
  \E k \in Keys :
    pendingAdd[k] /\ k \in processing /\ k \in dirty /\ stopped /\ shuttingDown

C6_ProbeFailureIsFatal ==
  runSel = "err"
    => /\ runRet = "err"
       /\ runPc \in {"defer", "returned"}
       /\ \A w \in Workers : wpc[w] = "idle"
       /\ informerPc = "idle"
       /\ ~syncInvoked

\* C6's case: Run has returned the probe's error.
C6_Witness == runSel = "err" /\ runPc = "returned" /\ runRet = "err"

\* C7: when the select takes the stop case, Run returns nil and neither the
\* worker nor the informer is ever started, whatever the probe does later.
C7_StopBeforeProbe ==
  runSel = "stop"
    => /\ runRet = "nil"
       /\ runPc \in {"defer", "returned"}
       /\ \A w \in Workers : wpc[w] = "idle"
       /\ informerPc = "idle"
       /\ ~syncInvoked

\* C7's case: Run has returned nil on the stop case and the probe has
\* resolved afterwards.
C7_Witness ==
  runSel = "stop" /\ runPc = "returned" /\ probePc \in {"sendNil", "sendErr"}

\* C8 as stated: sync of an object whose discriminator is anything but
\* "deployment", absent and non-string included, succeeds, installs nothing
\* and is not requeued.
C8_NonDeploymentSucceeds ==
  \A w \in Workers :
    wpc[w] = "done" /\ wrun[w].seen \in {"nostrategy", "other"}
      => wrun[w].err = "nil" /\ wrun[w].install = "none" /\ ~wrun[w].requeued

\* C8, amended: a string discriminator other than "deployment" makes sync
\* succeed with no install and no requeue; an absent or non-string
\* discriminator makes sync fail (casting strategy failed) with no install,
\* and the key is requeued with AddRateLimited.
C8_StringNonDeploymentSucceeds ==
  \A w \in Workers :
    wpc[w] = "done"
      => /\ wrun[w].seen = "other"
              => /\ wrun[w].err = "nil" /\ wrun[w].install = "none"
                 /\ wrun[w].forgot /\ ~wrun[w].reported /\ ~wrun[w].requeued
         /\ wrun[w].seen = "nostrategy"
              => /\ wrun[w].err = "strategy" /\ wrun[w].install = "none"
                 /\ wrun[w].reported /\ wrun[w].requeued

\* C8's case: a sync of an object with another string discriminator has
\* returned and the worker is at its Done.
C8_Witness ==
  \E w \in Workers :
    wpc[w] = "done" /\ wrun[w].seen = "other" /\ cache[wkey[w]] = "other"

\* C9: a dequeued key the cache reports as not existing makes sync return nil
\* without an install; no error is reported, no retry is scheduled, and the
\* worker goes to Done.
C9_MissingObjectSkipped ==
  \A w \in Workers :
    wrun[w].seen = "absent"
      => /\ wpc[w] = "done"
         /\ wrun[w].err = "nil" /\ wrun[w].install = "none"
         /\ wrun[w].forgot /\ ~wrun[w].reported /\ ~wrun[w].requeued

\* C9's case: the object was deleted between enqueue and processing, and
\* sync has returned.
C9_Witness ==
  \E w \in Workers :
    wpc[w] = "done" /\ wrun[w].seen = "absent" /\ wkey[w] \notin waiting

\* C10: on a Done that follows a successful sync, Forget was called first, the
\* key's failure counter is zero whatever it was before, and the key is
\* pending afterwards only if an Add for it was recorded while it was in
\* flight.
C10_SuccessForgetsThenDone ==
  [][\A w \in Workers :
       wpc[w] = "done" /\ wpc'[w] = "get" /\ wrun[w].err = "nil"
         => /\ wrun[w].forgot
            /\ failures'[wkey[w]] = 0
            /\ wkey[w] \notin processing'
            /\ Count(wkey[w], queue') > 0 => addsKept[wkey[w]]]_vars

\* C10's case: a successful sync after the key had reached the largest
\* failure count; Forget has run and Done is next.
C10_Witness ==
  \E w \in Workers :
    /\ wpc[w] = "done" /\ wrun[w].err = "nil" /\ wrun[w].forgot
    /\ wrun[w].cleared = MaxFailures
    /\ failures[wkey[w]] = 0

\* C11: a worker's loop ends only at a Get that reports shutdown (the queue is
\* shut down and drained); whatever sync returned, lookup error, cast error,
\* strategy cast error or nil, the worker goes on to the deferred Done and
\* from there back to Get.
C11_WorkerExitsOnlyOnShutdown ==
  [][\A w \in Workers :
       /\ (wpc[w] # "exited" /\ wpc'[w] = "exited")
            => (wpc[w] = "get" /\ queue = <<>> /\ shuttingDown)
       /\ wpc[w] = "sync" => wpc'[w] \in {"sync", "done"}
       /\ wpc[w] = "done" => wpc'[w] \in {"done", "get"}]_vars

\* A worker whose sync has just failed, for a key that had failed before.
C11_Witness ==
  \E w \in Workers :
    /\ wpc[w] = "done" /\ wrun[w].err # "nil"
    /\ failures[wkey[w]] = MaxFailures

\* C12: if the queue is never shut down and every sync of a key fails, then
\* once the key is pending, sync returns for it with the key requeued
\* infinitely often: retries are not bounded in number.
C12_FailingKeyRetriedForever ==
  \A k \in Keys :
    ( /\ []~shuttingDown
      /\ [](\A w \in Workers : InFlight(w, k) /\ wpc[w] = "done"
                                  => wrun[w].err # "nil")
      /\ <>(k \in dirty) )
    => []<>(\E w \in Workers : InFlight(w, k) /\ wpc[w] = "done"
                                /\ wrun[w].requeued)

\* A key of an object of the wrong type has failed MaxFailures times and
\* waits for its next retry, the queue not being shut down.
C12_Witness ==
  \E k \in Keys :
    /\ cache[k] = "badtype" /\ failures[k] = MaxFailures
    /\ k \in waiting /\ ~shuttingDown /\ ~Held(k)

\* C13: once the queue is shut down every worker that was started exits:
\* Get reports shutdown as soon as the queue has drained.
C13_ShutdownEndsWorkers ==
  shuttingDown ~> (\A w \in Workers : wpc[w] \in {"idle", "exited"})

\* A worker's sync has failed and AddRateLimited was called after ShutDown:
\* the key was requeued, yet nothing is scheduled and no Add was recorded.
C13_Witness ==
  \E w \in Workers :
    /\ wpc[w] = "done" /\ wrun[w].requeued /\ shuttingDown
    /\ wkey[w] \notin waiting /\ addsDuring[wkey[w]] = 0

\* C14: an AddRateLimited call never lowers the key's failure counter nor
\* leaves it at zero, and schedules a delay at least as long as that of the
\* key's previous AddRateLimited call, strictly longer while the previous
\* one was below the cap; the counter and the delay go down only by Forget.
C14_BackoffMonotone ==
  [][\A k \in Keys :
       /\ (\E w \in Workers : /\ InFlight(w, k) /\ wpc[w] = "sync"
                               /\ wpc'[w] = "done" /\ wrun'[w].requeued)
            => /\ failures'[k] >= failures[k] /\ failures'[k] > 0
               /\ lastDelay'[k] >= lastDelay[k]
               /\ lastDelay[k] < MaxDelay => lastDelay'[k] > lastDelay[k]
               /\ lastDelay'[k] = When(failures[k])
       /\ (failures'[k] < failures[k] \/ lastDelay'[k] < lastDelay[k])
            => \E w \in Workers : /\ InFlight(w, k) /\ wpc[w] = "sync"
                                  /\ wpc'[w] = "done" /\ wrun'[w].forgot]_vars

\* A key has failed until its delay reached the cap and waits for a retry.
C14_Witness ==
  \E k \in Keys :
    /\ lastDelay[k] = MaxDelay /\ failures[k] = MaxFailures
    /\ k \in waiting /\ MaxDelay > When(1)

\* C15: the queue never holds two pending entries for one key, every pending
\* entry is recorded as dirty, and the first Add call made for a key that is
\* already pending, by the event handler or by an expired retry, changes
\* neither the pending entries nor the dirty set.
C15_OnePendingEntryPerKey ==
  /\ [](\A k \in Keys : /\ Count(k, queue) <= 1
                         /\ Count(k, queue) = 1 => k \in dirty)
  /\ [][\A k \in Keys : ~addsPending[k] /\ addsPending'[k]
                           => queue' = queue /\ dirty' = dirty]_vars

\* A key is pending once although an Add call was made for it while it was
\* pending, after a failed sync whose retry has been delivered.
C15_Witness ==
  \E k \in Keys :
    /\ addsPending[k] /\ Count(k, queue) = 1
    /\ lastDelay[k] > 0 /\ k \notin waiting /\ ~shuttingDown

\* C16: Run's lifecycle state never moves to an earlier state of the order
\* Initializing, Connecting, Running, ShuttingDown, Stopped; Run is in
\* Running only after it received nil from the probe; and the step that
\* starts a worker or the informer is taken in Running, so none of them is
\* started in a Run that did not reach Running.
C16_LifecycleForwardOnly ==
  /\ [][Rank(Lifecycle') >= Rank(Lifecycle)]_vars
  /\ [](Lifecycle = "Running" => runSel = "nil" /\ probePc = "done")
  /\ [][(\/ (\E w \in Workers : wpc[w] = "idle" /\ wpc'[w] # "idle")
          \/ (informerPc = "idle" /\ informerPc' # "idle"))
         => Lifecycle = "Running" /\ Lifecycle' = "Running"]_vars
  /\ []((\/ (\E w \in Workers : wpc[w] # "idle")
          \/ informerPc # "idle")
         => runSel = "nil" /\ Rank(Lifecycle) >= Rank("Running"))

\* A Run that went through every lifecycle state: it has returned after a
\* successful probe, its workers have exited and the informer has stopped.
C16_Witness ==
  /\ Lifecycle = "Stopped" /\ runSel = "nil"
  /\ \A w \in Workers : wpc[w] = "exited"
  /\ informerPc = "stopped"

\* C17: a step in which the cache replaces or removes an object it held (an
\* update or delete notification) changes neither the pending entries, nor
\* the dirty and in-flight sets, nor the scheduled retries, nor the failure
\* counters and delays; a key becomes pending only by an add notification
\* or by the expiry of a retry.
C17_OnlyAddsEnqueue ==
  [][\A k \in Keys :
       /\ (cache[k] # "absent" /\ cache'[k] # cache[k])
            => UNCHANGED <<queue, dirty, processing, waiting, failures,
                           lastDelay>>
       /\ (k \notin dirty /\ k \in dirty')
            => \/ cache[k] = "absent" /\ cache'[k] # "absent"
               \/ k \in waiting /\ k \notin waiting']_vars

\* An object was changed or removed after the last sync of its key, the
\* informer and the queue are still running, and nothing is pending, in
\* flight or scheduled for the key.
C17_Witness ==
  \E k \in Keys :
    /\ unreconciled[k] /\ syncInvoked
    /\ informerPc = "running" /\ ~shuttingDown
    /\ queue = <<>> /\ dirty = {} /\ processing = {} /\ waiting = {}

\* C18: the in-flight set is exactly the set of keys held by workers between
\* a Get and its Done, and a worker at Get, not started or exited holds no
\* key, so the set is empty whenever no worker is between Get and Done; a
\* worker leaves the point after sync only by the Done that takes its key
\* out of the in-flight set; and every key in flight eventually leaves it.
C18_GetMatchedByDone ==
  /\ [](/\ processing = {k \in Keys : Held(k)}
        /\ \A w \in Workers : wpc[w] \in {"idle", "get", "exited"}
                                 => wkey[w] = ""
        /\ \A v, w \in Workers, k \in Keys :
             InFlight(v, k) /\ InFlight(w, k) => v = w)
  /\ [][\A w \in Workers :
          wpc[w] = "done" /\ wpc'[w] # "done"
            => /\ wpc'[w] = "get"
               /\ wkey[w] \in processing /\ wkey[w] \notin processing']_vars
  /\ \A k \in Keys : (k \in processing) ~> (k \notin processing)

\* Every worker is back at Get with nothing in flight, after a failed sync
\* whose retry is still scheduled.
C18_Witness ==
  /\ processing = {}
  /\ \A w \in Workers : wpc[w] = "get"
  /\ \E k \in Keys : k \in waiting /\ lastDelay[k] > 0

\* C19: the probe goroutine's send on errChan is always received: whenever
\* the goroutine is blocked in the send, Run is still in the select that
\* receives from errChan.  (Run never comes back to the select, so a send
\* that finds Run past it is never received and the goroutine never ends.)
C19_ProbeSendReceived ==
  probePc \in {"sendErr", "sendNil"} => runPc = "select"

\* C20: once Run has returned, by whichever path, the queue is shut down
\* and Run's result is set; while the queue is not shut down Run has not
\* returned.
C20_ReturnedAfterShutDown ==
  /\ runPc = "returned" => shuttingDown /\ runRet \in {"nil", "err"}
  /\ runPc = "returned" => runSel \in {"err", "stop", "nil"}
  /\ ~shuttingDown => runPc \in {"init", "select", "ready", "running", "defer"}

\* Run has returned the probe's error without ever starting a worker, and
\* the queue is shut down.
C20_Witness ==
  /\ runPc = "returned" /\ runRet = "err" /\ shuttingDown
  /\ \A w \in Workers : wpc[w] = "idle"
  /\ informerPc = "idle"

===========================================================================
